---- MODULE Spec2Model ----
(***************************************************************************)
(* typedprotocol: runtime structural conformance of annotated classes.     *)
(*                                                                         *)
(* The model covers the Type Compatibility Engine                          *)
(* (typedprotocol/type_checker.py), the Method Signature Engine            *)
(* (typedprotocol/method_checker.py) and the Structural Conformance Hook   *)
(* that drives them.  A TypeVar binding context is a function from TypeVar *)
(* names to type descriptors; every engine call returns its boolean result *)
(* together with the context as the call left it.                          *)
(***************************************************************************)
EXTENDS Naturals, Sequences, FiniteSets, TLC

VARIABLES type_var_mapping, calls, op, tcall, mcall, hcall, contexts, threads

vars == <<type_var_mapping, calls, op, tcall, mcall, hcall, contexts, threads>>

(***************************************************************************)
(* Bounds.                                                                 *)
(***************************************************************************)
\* Engine calls a caller makes on one binding context before discarding it.
MaxCalls == 2
\* Longest tuple of protocols handed to conforms_any.
MaxTuple == 2
\* Threads that call the convenience entry points at the same time.
NumThreads == 2

(***************************************************************************)
(* Type descriptors: what an annotation evaluates to.                      *)
(*   class    a class object (int, bool, a protocol class, ...)            *)
(*   typevar  a typing.TypeVar                                             *)
(*   generic  a parameterised alias with an origin and arguments           *)
(*   none     the object None (the annotation "-> None", and what          *)
(*            dict.get returns for a missing key)                          *)
(*   other    any other descriptor, e.g. a string forward reference        *)
(***************************************************************************)
Cls(n) == [kind |-> "class", name |-> n, args |-> <<>>]

TVar(n) == [kind |-> "typevar", name |-> n, args |-> <<>>]

Gen(o, as) == [kind |-> "generic", name |-> o, args |-> as]

Fwd(n) == [kind |-> "other", name |-> n, args |-> <<>>]

None == [kind |-> "none", name |-> "None", args |-> <<>>]

\* The empty dict {} a fresh binding context starts as.
EmptyMap == [v \in {} |-> None]

\* d.get(k): the value under k, or None when k is missing.
Get(d, k) == IF k \in DOMAIN d THEN d[k] ELSE None

(***************************************************************************)
(* The classes the annotations of the model mention.                       *)
(*   meta "type"           an ordinary class: issubclass is nominal        *)
(*   meta "TypedProtocol"  a protocol class of this library: issubclass    *)
(*                         runs the structural conformance hook            *)
(*   meta "Protocol"       a typing.Protocol class that is not             *)
(*                         runtime-checkable: issubclass raises TypeError  *)
(***************************************************************************)
ClassNames == {"int", "bool", "str", "bytes", "float",
               "ParamType", "ExtendedParamType", "Proto"}

Meta(n) ==
    CASE n \in {"ParamType", "ExtendedParamType"} -> "TypedProtocol"
      [] n = "Proto" -> "Protocol"
      [] OTHER -> "type"

\* The classes of n's method resolution order (n itself included).
Mro(n) ==
    CASE n = "bool" -> {"bool", "int"}
      [] n = "ExtendedParamType" -> {"ExtendedParamType", "ParamType"}
      [] OTHER -> {n}

(***************************************************************************)
(* Method objects, as inspect sees them.                                   *)
(*   sig           what inspect.signature does for the object: "ok", or    *)
(*                 the exception it raises                                 *)
(*   params        the parameter names of the object's own signature       *)
(*   ann           its __annotations__ (parameter name or "return" -> type)*)
(*   coroutine     inspect.iscoroutinefunction of the object               *)
(*   has_original  the object carries _original_method (a substituted      *)
(*                 method of a parameterised protocol)                     *)
(*   orig_params   the parameter names of _original_method's signature     *)
(***************************************************************************)
Method(ps, an, co) ==
    [sig |-> "ok", params |-> ps, ann |-> an, coroutine |-> co,
     has_original |-> FALSE, orig_params |-> <<>>]

\* An object inspect.signature cannot inspect (it raises exc).
Uninspectable(exc) ==
    [sig |-> exc, params |-> <<>>, ann |-> EmptyMap, coroutine |-> FALSE,
     has_original |-> FALSE, orig_params |-> <<>>]

\* __annotations__ of a method with one annotated parameter and a return.
Ann1(p, t, r) == (p :> t) @@ ("return" :> r)

(***************************************************************************)
(* Generic parameterisation: P[args] replaces the protocol's TypeVars in   *)
(* the member annotations, nested generic arguments included.              *)
(***************************************************************************)
RECURSIVE Subst(_, _)
Subst(t, sigma) ==
    CASE t.kind = "typevar" -> IF t.name \in DOMAIN sigma THEN sigma[t.name] ELSE t
      [] t.kind = "generic" ->
           Gen(t.name, [i \in 1..Len(t.args) |-> Subst(t.args[i], sigma)])
      [] OTHER -> t

\* The substituted method: the original signature is kept behind
\* _original_method, only the declared types are rewritten.
SubstitutedMethod(m, sigma) ==
    [sig |-> "ok", params |-> <<"args", "kwargs">>,
     ann |-> [k \in DOMAIN m.ann |-> Subst(m.ann[k], sigma)],
     coroutine |-> m.coroutine,
     has_original |-> TRUE, orig_params |-> m.params]

(***************************************************************************)
(* Protocol declarations: those of the test module, and ValidatorProtocol, *)
(* a second protocol over the TypeVar U of ExtendedProtocol.               *)
(*   tparams  the protocol's TypeVars, in order                            *)
(*   bases    the protocol bases, each with its subscript arguments        *)
(*   fields   own annotated attributes, in declaration order               *)
(*   methods  own methods, in declaration order                            *)
(***************************************************************************)
Ref(n, as) == [name |-> n, args |-> as]

Field(n, t) == [name |-> n, type |-> t]

Member(n, m) == [name |-> n, method |-> m]

ProtocolNames ==
    {"Request", "Custom", "ServiceProtocol", "AsyncServiceProtocol",
     "ParamType", "ExtendedParamType", "ComplexServiceProtocol",
     "BaseProtocol", "ExtendedProtocol", "ValidatorProtocol"}

ProtocolDef(n) ==
    CASE n = "Request" ->
           [tparams |-> <<>>, bases |-> <<>>,
            fields |-> <<Field("id", Cls("int")), Field("data", Cls("bytes"))>>,
            methods |-> <<>>]
      [] n = "Custom" ->
           [tparams |-> <<>>, bases |-> <<Ref("Request", <<>>)>>,
            fields |-> <<Field("name", Cls("str"))>>,
            methods |-> <<>>]
      [] n = "ServiceProtocol" ->
           [tparams |-> <<>>, bases |-> <<>>,
            fields |-> <<Field("name", Cls("str"))>>,
            methods |-> <<
              Member("process", Method(<<"self", "data">>,
                         Ann1("data", Cls("bytes"), Cls("str")), FALSE)),
              Member("validate", Method(<<"self", "value">>,
                         Ann1("value", Cls("int"), Cls("bool")), FALSE))>>]
      [] n = "AsyncServiceProtocol" ->
           [tparams |-> <<>>, bases |-> <<>>, fields |-> <<>>,
            methods |-> <<
              Member("fetch_data", Method(<<"self", "url">>,
                         Ann1("url", Cls("str"),
                              Gen("dict", <<Cls("str"), Cls("Any")>>)), TRUE))>>]
      [] n = "ParamType" ->
           [tparams |-> <<>>, bases |-> <<>>,
            fields |-> <<Field("value", Cls("int")), Field("label", Cls("str"))>>,
            methods |-> <<>>]
      [] n = "ExtendedParamType" ->
           [tparams |-> <<>>, bases |-> <<Ref("ParamType", <<>>)>>,
            fields |-> <<Field("extra", Cls("float"))>>,
            methods |-> <<>>]
      [] n = "ComplexServiceProtocol" ->
           [tparams |-> <<>>, bases |-> <<>>, fields |-> <<>>,
            methods |-> <<
              Member("compute", Method(<<"self", "param">>,
                         Ann1("param", Cls("ParamType"), Cls("int")), FALSE))>>]
      [] n = "BaseProtocol" ->
           [tparams |-> <<"T">>, bases |-> <<>>,
            fields |-> <<Field("data", TVar("T"))>>,
            methods |-> <<
              Member("process", Method(<<"self", "item">>,
                         Ann1("item", TVar("T"), TVar("T")), FALSE))>>]
      [] n = "ExtendedProtocol" ->
           [tparams |-> <<"U">>, bases |-> <<Ref("BaseProtocol", <<TVar("U")>>)>>,
            fields |-> <<Field("metadata", Cls("str"))>>,
            methods |-> <<
              Member("validate", Method(<<"self", "item">>,
                         Ann1("item", TVar("U"), Cls("bool")), FALSE))>>]
      [] n = "ValidatorProtocol" ->
           [tparams |-> <<"U">>, bases |-> <<>>, fields |-> <<>>,
            methods |-> <<
              Member("validate", Method(<<"self", "item">>,
                         Ann1("item", TVar("U"), Cls("bool")), FALSE))>>]

\* The names of a sequence of members.
Names(ms) == {ms[i].name : i \in 1..Len(ms)}

\* The members of ms whose name is not in ns, order kept.
RECURSIVE Without(_, _)
Without(ms, ns) ==
    IF ms = <<>> THEN <<>>
    ELSE (IF ms[1].name \in ns THEN <<>> ELSE <<ms[1]>>) \o Without(Tail(ms), ns)

\* The substitution a subscripted reference P[args] stands for.
Sigma(ref) ==
    LET tp == ProtocolDef(ref.name).tparams
    IN  [v \in {tp[i] : i \in 1..Len(ref.args)} |->
            ref.args[CHOOSE i \in 1..Len(ref.args) : tp[i] = v]]

\* Effective member set: the bases' effective members (substituted by the
\* subscript of the reference), own declarations overriding same-named ones.
\* Inherited members, overridden by the same-named ones that come later.
Override(inherited, later) == Without(inherited, Names(later)) \o later

\* The fields all, with the substitution sigma applied to their types.
SubstFields(all, sigma) ==
    [i \in 1..Len(all) |-> Field(all[i].name, Subst(all[i].type, sigma))]

\* The methods all as substituted methods under sigma.
SubstMethods(all, sigma) ==
    [i \in 1..Len(all) |-> Member(all[i].name, SubstitutedMethod(all[i].method, sigma))]

RECURSIVE EffectiveFields(_)
RECURSIVE BasesFields(_, _)
BasesFields(bs, i) ==
    IF i > Len(bs) THEN <<>>
    ELSE Override(EffectiveFields(bs[i]), BasesFields(bs, i + 1))

EffectiveFields(ref) ==
    SubstFields(Override(BasesFields(ProtocolDef(ref.name).bases, 1),
                         ProtocolDef(ref.name).fields),
                Sigma(ref))

RECURSIVE EffectiveMethods(_)
RECURSIVE BasesMethods(_, _)
BasesMethods(bs, i) ==
    IF i > Len(bs) THEN <<>>
    ELSE Override(EffectiveMethods(bs[i]), BasesMethods(bs, i + 1))

\* An unsubscripted protocol keeps its plain methods.
MaybeSubstituted(ref, all) ==
    IF ref.args = <<>> THEN all ELSE SubstMethods(all, Sigma(ref))

EffectiveMethods(ref) ==
    MaybeSubstituted(ref, Override(BasesMethods(ProtocolDef(ref.name).bases, 1),
                                   ProtocolDef(ref.name).methods))

(***************************************************************************)
(* Candidate classes as the hook reads them: the class's own               *)
(* __annotations__ and the callables it defines.                           *)
(***************************************************************************)
Candidate(fs, ms) == [fields |-> fs, methods |-> ms]

\* The own annotations of a protocol class used as a candidate.
OwnFields(n) ==
    LET fs == ProtocolDef(n).fields
    IN  [k \in Names(fs) |-> (CHOOSE f \in {fs[i] : i \in 1..Len(fs)} : f.name = k).type]

\* The candidate view of a class that occurs as an annotation.
CandidateOf(n) ==
    IF n \in ProtocolNames THEN Candidate(OwnFields(n), EmptyMap)
    ELSE Candidate(EmptyMap, EmptyMap)

(***************************************************************************)
(* What an engine call returns: the boolean, the binding context as the    *)
(* call left it, and whether one of its except clauses ran.                *)
(***************************************************************************)
Outcome(r, m, c) == [res |-> r, map |-> m, caught |-> c]

RECURSIVE is_compatible_with_unification(_, _, _)
RECURSIVE are_compatible_with_unification(_, _, _)
RECURSIVE conforms(_, _)

\* typing.get_origin: the origin of a parameterised alias, else None.
get_origin(t) == IF t.kind = "generic" THEN t.name ELSE "None"

\* typing.get_args.
get_args(t) == t.args

\* inspect.isclass.
isclass(t) == t.kind = "class"

\* The builtin issubclass(actual, expected) on two classes: "true", "false"
\* or the exception the metaclass of expected raises.
issubclass(actual, expected) ==
    CASE Meta(expected.name) = "type" ->
           IF expected.name \in Mro(actual.name) THEN "true" ELSE "false"
      [] Meta(expected.name) = "TypedProtocol" ->
           IF conforms(CandidateOf(actual.name), Ref(expected.name, <<>>))
           THEN "true" ELSE "false"
      [] OTHER -> "TypeError"

\* TypeVarRule with a bound TypeVar accepting any compatible type (a subclass
\* of the bound type included) instead of the identical one.
TypeVarRuleCompatible(actual, expected, m) ==
    IF expected.name \in DOMAIN m
    THEN Outcome(is_compatible_with_unification(actual, m[expected.name], m).res, m, FALSE)
    ELSE Outcome(TRUE, (expected.name :> actual) @@ m, FALSE)

\* if isinstance(expected, typing.TypeVar): compare with the binding, or bind.
TypeVarRule(actual, expected, m) ==
    IF expected.name \in DOMAIN m
    THEN Outcome(m[expected.name] = actual, m, FALSE)
    ELSE Outcome(TRUE, (expected.name :> actual) @@ m, FALSE)

\* except (TypeError, AttributeError): return actual == expected
ExceptRule(actual, expected, m) == Outcome(actual = expected, m, TRUE)

\* ClassRule without the inheritance test: only the identical class passes.
ClassRuleEqualOnly(actual, expected, m) == Outcome(actual = expected, m, FALSE)

\* What the class branch returns for the answer r of issubclass: the except
\* clause takes over when issubclass raised.
SubclassOutcome(r, actual, expected, m) ==
    IF r \in {"TypeError", "AttributeError"}
    THEN ExceptRule(actual, expected, m)
    ELSE Outcome(r = "true", m, FALSE)

\* ClassRule with the arguments of issubclass swapped.
ClassRuleSwapped(actual, expected, m) ==
    SubclassOutcome(issubclass(expected, actual), actual, expected, m)

\* if inspect.isclass(actual) and inspect.isclass(expected):
\*     return issubclass(actual, expected)
ClassRule(actual, expected, m) ==
    SubclassOutcome(issubclass(actual, expected), actual, expected, m)

\* return actual == expected
EqualityRule(actual, expected, m) == Outcome(actual = expected, m, FALSE)

\* all(is_compatible_with_unification(a, e, m) for a, e in zip(...)): the
\* generator stops at the first False, the bindings made so far stay.
RECURSIVE AllArgs(_, _, _, _)

\* Merge that restores the context of first when rest fails.
MergeRollback(first, rest) ==
    Outcome(rest.res, IF rest.res THEN rest.map ELSE first.map,
            first.caught \/ rest.caught)

\* The outcome of a sequence of checks: first succeeded, rest followed.
Merge(first, rest) == Outcome(rest.res, rest.map, first.caught \/ rest.caught)

\* After the check r of argument i: stop at False, else go on under r's context.
AllArgsFrom(actual_args, expected_args, i, r) ==
    IF ~r.res THEN r
    ELSE Merge(r, AllArgs(actual_args, expected_args, i + 1, r.map))

AllArgs(actual_args, expected_args, i, m) ==
    IF i > Len(expected_args) THEN Outcome(TRUE, m, FALSE)
    ELSE AllArgsFrom(actual_args, expected_args, i,
             is_compatible_with_unification(actual_args[i], expected_args[i], m))

\* The generic branch: equal origins, equal argument counts, pairwise check.
GenericRule(actual, expected, m) ==
    LET actual_origin == get_origin(actual)
        expected_origin == get_origin(expected)
        actual_args == IF actual_origin # "None" THEN get_args(actual) ELSE <<>>
        expected_args == IF expected_origin # "None" THEN get_args(expected) ELSE <<>>
    IN  IF actual_origin # expected_origin THEN Outcome(FALSE, m, FALSE)
        ELSE IF Len(actual_args) # Len(expected_args) THEN Outcome(FALSE, m, FALSE)
        ELSE AllArgs(actual_args, expected_args, 1, m)

\* TypeChecker.is_compatible_with_unification
is_compatible_with_unification(actual, expected, m) ==
    IF expected.kind = "typevar" THEN TypeVarRule(actual, expected, m)
    ELSE IF get_origin(actual) # "None" \/ get_origin(expected) # "None"
         THEN GenericRule(actual, expected, m)
    ELSE IF isclass(actual) /\ isclass(expected) THEN ClassRule(actual, expected, m)
    ELSE EqualityRule(actual, expected, m)

\* TypeChecker.is_compatible: the same check on a fresh empty context.
is_compatible(actual, expected) ==
    is_compatible_with_unification(actual, expected, EmptyMap)

(***************************************************************************)
(* MethodChecker.                                                          *)
(***************************************************************************)
\* ProtocolParams that ignores _original_method.
ProtocolParamsOwn(protocol_method) == protocol_method.params

\* The protocol's parameter list: the signature of _original_method for a
\* substituted method, the method's own signature otherwise.
ProtocolParams(protocol_method) ==
    IF protocol_method.has_original THEN protocol_method.orig_params
    ELSE protocol_method.params

\* AsyncMismatch with the coroutine comparison left out.
AsyncMismatchIgnored(actual_method, protocol_method) == FALSE

\* inspect.iscoroutinefunction(actual) != inspect.iscoroutinefunction(protocol)
AsyncMismatch(actual_method, protocol_method) ==
    actual_method.coroutine # protocol_method.coroutine

\* ParamTypeRule that asks only for some declared candidate type.
ParamTypeRulePresenceOnly(actual_param_type, protocol_param_type, m) ==
    Outcome(protocol_param_type # None => actual_param_type # None, m, FALSE)

\* One parameter's declared types: a protocol type that is not None asks for
\* a candidate type that is not None and is compatible with it.
ParamTypeRule(actual_param_type, protocol_param_type, m) ==
    IF protocol_param_type # None
    THEN IF actual_param_type = None THEN Outcome(FALSE, m, FALSE)
         ELSE is_compatible_with_unification(actual_param_type, protocol_param_type, m)
    ELSE Outcome(TRUE, m, FALSE)

\* The parameter loop: names position by position, then the declared types.
RECURSIVE CheckParams(_, _, _, _, _)

\* After the type check r of parameter i: stop at False, else the next one.
CheckParamsFrom(actual_method, protocol_method, protocol_params, i, r) ==
    IF ~r.res THEN r
    ELSE Merge(r, CheckParams(actual_method, protocol_method,
                              protocol_params, i + 1, r.map))

CheckParams(actual_method, protocol_method, protocol_params, i, m) ==
    IF i > Len(protocol_params) THEN Outcome(TRUE, m, FALSE)
    ELSE IF actual_method.params[i] # protocol_params[i] THEN Outcome(FALSE, m, FALSE)
    ELSE CheckParamsFrom(actual_method, protocol_method, protocol_params, i,
             ParamTypeRule(Get(actual_method.ann, actual_method.params[i]),
                           Get(protocol_method.ann, protocol_params[i]), m))

\* The return check: annotations.get('return') on both sides.
ReturnRule(actual_method, protocol_method, m) ==
    LET actual_return == Get(actual_method.ann, "return")
        protocol_return == Get(protocol_method.ann, "return")
    IN  IF protocol_return # None
        THEN IF actual_return = None THEN Outcome(FALSE, m, FALSE)
             ELSE is_compatible_with_unification(actual_return, protocol_return, m)
        ELSE Outcome(TRUE, m, FALSE)

\* After the parameter loop p: stop at False, else the return check.
ReturnAfter(actual_method, protocol_method, p) ==
    IF ~p.res THEN p
    ELSE Merge(p, ReturnRule(actual_method, protocol_method, p.map))

\* len(actual_params) != len(protocol_params)
CountMismatch(actual_method, protocol_method) ==
    Len(actual_method.params) # Len(ProtocolParams(protocol_method))

\* MethodChecker.are_compatible_with_unification
are_compatible_with_unification(actual_method, protocol_method, m) ==
    IF actual_method.sig # "ok" \/ protocol_method.sig # "ok"
    THEN Outcome(FALSE, m, TRUE)
    ELSE IF AsyncMismatch(actual_method, protocol_method) THEN Outcome(FALSE, m, FALSE)
    ELSE IF CountMismatch(actual_method, protocol_method) THEN Outcome(FALSE, m, FALSE)
    ELSE ReturnAfter(actual_method, protocol_method,
             CheckParams(actual_method, protocol_method,
                         ProtocolParams(protocol_method), 1, m))

\* MethodChecker.are_compatible: the same check on a fresh empty context.
are_compatible(actual_method, protocol_method) ==
    are_compatible_with_unification(actual_method, protocol_method, EmptyMap)

(***************************************************************************)
(* Structural Conformance Hook.                                            *)
(***************************************************************************)
\* Every required field: declared by the candidate, with a compatible type.
RECURSIVE CheckFields(_, _, _, _)

CheckFieldsFrom(cand, fs, i, r) ==
    IF ~r.res THEN r ELSE CheckFields(cand, fs, i + 1, r.map)

CheckFields(cand, fs, i, m) ==
    IF i > Len(fs) THEN Outcome(TRUE, m, FALSE)
    ELSE IF fs[i].name \notin DOMAIN cand.fields THEN Outcome(FALSE, m, FALSE)
    ELSE CheckFieldsFrom(cand, fs, i,
             is_compatible_with_unification(cand.fields[fs[i].name], fs[i].type, m))

\* Every required method: defined by the candidate, with a compatible signature.
RECURSIVE CheckMethods(_, _, _, _)

CheckMethodsFrom(cand, ms, i, r) ==
    IF ~r.res THEN r ELSE CheckMethods(cand, ms, i + 1, r.map)

CheckMethods(cand, ms, i, m) ==
    IF i > Len(ms) THEN Outcome(TRUE, m, FALSE)
    ELSE IF ms[i].name \notin DOMAIN cand.methods THEN Outcome(FALSE, m, FALSE)
    ELSE CheckMethodsFrom(cand, ms, i,
             are_compatible_with_unification(cand.methods[ms[i].name], ms[i].method, m))

\* After the fields f: stop at False, else the methods under f's context.
MethodsAfter(cand, ref, f) ==
    IF ~f.res THEN f ELSE CheckMethods(cand, EffectiveMethods(ref), 1, f.map)

\* One protocol's members against the candidate, all under the context m.
ConformsIn(cand, ref, m) ==
    MethodsAfter(cand, ref, CheckFields(cand, EffectiveFields(ref), 1, m))

\* conforms(candidate, protocol): one fresh context per query.
conforms(cand, ref) == ConformsIn(cand, ref, EmptyMap).res

\* ContextFor that hands the previous protocol's context on.
ContextShared(previous) == previous

\* The context each protocol of a tuple is tested under: always a fresh one.
ContextFor(previous) == EmptyMap

\* conforms_any(candidate, protocols): the first protocol that accepts wins.
RECURSIVE AnyFrom(_, _, _, _)

\* After protocol i answered r: True ends the query, else the next protocol.
AnyAfter(cand, refs, i, r) == r.res \/ AnyFrom(cand, refs, i + 1, r.map)

AnyFrom(cand, refs, i, previous) ==
    IF i > Len(refs) THEN FALSE
    ELSE AnyAfter(cand, refs, i, ConformsIn(cand, refs[i], ContextFor(previous)))

conforms_any(cand, refs) == AnyFrom(cand, refs, 1, EmptyMap)

(***************************************************************************)
(* Inputs.                                                                 *)
(***************************************************************************)
\* typing.List: an alias with origin list and no arguments.
TypingList == Gen("list", <<>>)

\* Declared types on the candidate side.
ActualTypes ==
    {Cls("int"), Cls("bool"), Cls("str"), None,
     Gen("list", <<Cls("int")>>), Gen("list", <<Cls("bool")>>),
     Gen("dict", <<Cls("str"), Cls("int")>>), Gen("dict", <<Cls("str"), Cls("str")>>),
     Cls("ParamType"), Cls("ExtendedParamType"), Cls("Proto")}

\* Declared types on the protocol side.
ExpectedTypes ==
    {TVar("T"), TVar("U"), Cls("int"), None,
     Gen("list", <<TVar("T")>>), Gen("list", <<Cls("int")>>), TypingList,
     Gen("dict", <<TVar("T"), TVar("T")>>),
     Cls("ParamType"), Cls("Proto")}

\* __annotations__ of a method over the parameters x and y.
Ann2(tx, ty, r) == ("x" :> tx) @@ ("y" :> ty) @@ ("return" :> r)

\* Candidate methods.
ActualMethods ==
    {Method(<<"self", "x">>, Ann1("x", t, r), FALSE) :
        t \in {Cls("int"), Cls("bool"), Cls("str")}, r \in {Cls("int"), None}}
    \cup {Method(<<"self", "x">>, "x" :> Cls("int"), FALSE),
          Method(<<"self", "x">>, "return" :> Cls("int"), FALSE),
          Method(<<"self", "x">>, Ann1("x", Cls("int"), Cls("int")), TRUE),
          Method(<<"self", "y">>, Ann1("y", Cls("int"), Cls("int")), FALSE),
          Method(<<"self", "x", "y">>, Ann2(Cls("int"), Cls("int"), Cls("int")), FALSE),
          Method(<<"self", "y", "x">>, Ann2(Cls("int"), Cls("int"), Cls("int")), FALSE),
          Method(<<"self", "x", "y">>, Ann2(Cls("bool"), Cls("int"), Cls("int")), FALSE),
          Method(<<"self", "x">>, Ann1("x", Cls("ParamType"), Cls("int")), FALSE),
          Method(<<"self", "x">>, Ann1("x", Cls("ExtendedParamType"), Cls("int")), FALSE),
          Method(<<"self", "x">>, Ann1("x", Cls("Proto"), Cls("int")), FALSE),
          Method(<<"self", "x">>, Ann1("x", Gen("list", <<Cls("int")>>), Cls("int")), FALSE),
          Uninspectable("ValueError")}

\* Protocol methods: plain ones, and substituted ones of a parameterised protocol.
GenericMethod == Method(<<"self", "x">>, Ann1("x", TVar("T"), TVar("T")), FALSE)

ProtocolMethods ==
    {Method(<<"self", "x">>, Ann1("x", Cls("int"), Cls("int")), FALSE),
     Method(<<"self", "x">>, Ann1("x", Cls("int"), None), FALSE),
     Method(<<"self", "x">>, "return" :> Cls("int"), FALSE),
     Method(<<"self", "x">>, Ann1("x", None, Cls("int")), FALSE),
     Method(<<"self", "x">>, Ann1("x", Cls("int"), Cls("int")), TRUE),
     GenericMethod,
     Method(<<"self", "x">>, Ann1("x", Gen("list", <<TVar("T")>>), TVar("T")), FALSE),
     Method(<<"self", "x", "y">>, Ann2(TVar("T"), TVar("T"), Cls("int")), FALSE),
     SubstitutedMethod(GenericMethod, "T" :> Cls("int")),
     SubstitutedMethod(GenericMethod, "T" :> TVar("U")),
     Method(<<"self", "x">>, Ann1("x", Cls("ParamType"), Cls("int")), FALSE),
     Method(<<"self", "x">>, Ann1("x", Cls("Proto"), Cls("int")), FALSE)}

(***************************************************************************)
(* State.                                                                  *)
(*   type_var_mapping  the binding context the caller holds                *)
(*   calls             engine calls made on it so far                      *)
(*   op                the operation that ran last                         *)
(*   tcall, mcall      the last TypeChecker / MethodChecker call: inputs,  *)
(*                     the context before and after, and the outcome       *)
(*   hcall             the last conformance query                          *)
(*   contexts          the dicts allocated by the convenience entry points *)
(*   threads           each thread's position inside is_compatible or      *)
(*                     are_compatible: the call it runs and what is left   *)
(***************************************************************************)
NoTCall ==
    [actual |-> None, expected |-> None, pre |-> EmptyMap, post |-> EmptyMap,
     res |-> FALSE, caught |-> FALSE]

NoMCall ==
    [actual |-> Uninspectable("none"), protocol |-> Uninspectable("none"),
     pre |-> EmptyMap, post |-> EmptyMap, res |-> FALSE, caught |-> FALSE]

NoHCall == [cand |-> Candidate(EmptyMap, EmptyMap), refs |-> <<>>, res |-> FALSE]

Threads == 1..NumThreads

\* A call of a convenience entry point: is_compatible(actual, expected) or
\* are_compatible(actual, expected).
Job(k, actual, expected) == [kind |-> k, actual |-> actual, expected |-> expected]

NoJob == Job("none", None, None)

\* A thread outside every call.
IdleThread == [pc |-> "idle", job |-> NoJob, work |-> <<>>, res |-> FALSE, caught |-> FALSE]

Init ==
    /\ type_var_mapping = EmptyMap
    /\ calls = 0
    /\ op = "init"
    /\ tcall = NoTCall
    /\ mcall = NoMCall
    /\ hcall = NoHCall
    /\ contexts = [c \in Threads |-> EmptyMap]
    /\ threads = [p \in Threads |-> IdleThread]

\* The caller allocates a new, empty binding context.
NewContext ==
    /\ op # "init"
    /\ type_var_mapping' = EmptyMap
    /\ calls' = 0
    /\ op' = "new"
    /\ tcall' = NoTCall
    /\ mcall' = NoMCall
    /\ hcall' = NoHCall
    /\ UNCHANGED <<contexts, threads>>

\* The call returns r: the caller's context is as the call left it.
TypeReturns(actual, expected, r) ==
    /\ type_var_mapping' = r.map
    /\ tcall' = [actual |-> actual, expected |-> expected,
                 pre |-> type_var_mapping, post |-> r.map,
                 res |-> r.res, caught |-> r.caught]

\* TypeChecker.is_compatible_with_unification(actual, expected, type_var_mapping)
TypeCheck(actual, expected) ==
    /\ calls < MaxCalls
    /\ TypeReturns(actual, expected,
                   is_compatible_with_unification(actual, expected, type_var_mapping))
    /\ calls' = calls + 1
    /\ op' = "type"
    /\ mcall' = NoMCall
    /\ hcall' = NoHCall
    /\ UNCHANGED <<contexts, threads>>

\* The call returns r: the caller's context is as the call left it.
MethodReturns(actual_method, protocol_method, r) ==
    /\ type_var_mapping' = r.map
    /\ mcall' = [actual |-> actual_method, protocol |-> protocol_method,
                 pre |-> type_var_mapping, post |-> r.map,
                 res |-> r.res, caught |-> r.caught]

\* MethodChecker.are_compatible_with_unification(actual, protocol, type_var_mapping)
MethodCheck(actual_method, protocol_method) ==
    /\ calls < MaxCalls
    /\ MethodReturns(actual_method, protocol_method,
                     are_compatible_with_unification(actual_method, protocol_method,
                                                     type_var_mapping))
    /\ calls' = calls + 1
    /\ op' = "method"
    /\ tcall' = NoTCall
    /\ hcall' = NoHCall
    /\ UNCHANGED <<contexts, threads>>

\* The Type Compatibility Engine, called on one context after another.
Next ==
    \/ NewContext
    \/ \E actual \in ActualTypes, expected \in ExpectedTypes : TypeCheck(actual, expected)

Spec == Init /\ [][Next]_vars

\* The Method Signature Engine, called on one context after another.
MethodNext ==
    \/ NewContext
    \/ \E actual_method \in ActualMethods, protocol_method \in ProtocolMethods :
          MethodCheck(actual_method, protocol_method)

MethodSpec == Init /\ [][MethodNext]_vars

(***************************************************************************)
(* Conformance queries.                                                    *)
(***************************************************************************)
\* dict literal helpers for candidate classes.
Opt(k, ts) == {EmptyMap} \cup {k :> t : t \in ts}

\* Candidates that declare only fields: each of id, data, name absent or
\* declared with one of a few types.
FieldCandidates ==
    {Candidate(i @@ d @@ n, EmptyMap) :
        i \in Opt("id", {Cls("int"), Cls("bool"), Cls("str")}),
        d \in Opt("data", {Cls("bytes"), Cls("str")}),
        n \in Opt("name", {Cls("str"), Cls("int")})}

Process(t, r) == Method(<<"self", "data">>, Ann1("data", t, r), FALSE)

Validate(t) == Method(<<"self", "value">>, Ann1("value", t, Cls("bool")), FALSE)

ItemMethod(t, r) == Method(<<"self", "item">>, Ann1("item", t, r), FALSE)

Compute(t) == Method(<<"self", "param">>, Ann1("param", t, Cls("int")), FALSE)

FetchData(co) ==
    Method(<<"self", "url">>,
           Ann1("url", Cls("str"), Gen("dict", <<Cls("str"), Cls("Any")>>)), co)

ServiceFields == "name" :> Cls("str")

ProcessorFields == ("data" :> Cls("str")) @@ ("metadata" :> Cls("str"))

\* The implementer classes of the test module.
StringProcessor ==
    Candidate(ProcessorFields,
              ("process" :> ItemMethod(Cls("str"), Cls("str")))
              @@ ("validate" :> ItemMethod(Cls("str"), Cls("bool"))))

MixedProcessor ==
    Candidate(ProcessorFields,
              ("process" :> ItemMethod(Cls("str"), Cls("str")))
              @@ ("validate" :> ItemMethod(Cls("int"), Cls("bool"))))

ValidService ==
    Candidate(ServiceFields,
              ("process" :> Process(Cls("bytes"), Cls("str")))
              @@ ("validate" :> Validate(Cls("int"))))

MissingMethod ==
    Candidate(ServiceFields, "process" :> Process(Cls("bytes"), Cls("str")))

WrongMethodSignature ==
    Candidate(ServiceFields,
              ("process" :> Process(Cls("str"), Cls("str")))
              @@ ("validate" :> Validate(Cls("int"))))

WrongReturnType ==
    Candidate(ServiceFields,
              ("process" :> Process(Cls("bytes"), Cls("int")))
              @@ ("validate" :> Validate(Cls("int"))))

SubclassTypeMethod ==
    Candidate(ServiceFields,
              ("process" :> Process(Cls("bytes"), Cls("str")))
              @@ ("validate" :> Validate(Cls("bool"))))

ValidAsyncService == Candidate(EmptyMap, "fetch_data" :> FetchData(TRUE))

WrongAsyncSignature == Candidate(EmptyMap, "fetch_data" :> FetchData(FALSE))

ValidComplexService == Candidate(EmptyMap, "compute" :> Compute(Cls("ParamType")))

InvalidComplexService ==
    Candidate(EmptyMap, "compute" :> Compute(Cls("ExtendedParamType")))

BothProtocolsImpl ==
    Candidate(("id" :> Cls("int")) @@ ("data" :> Cls("bytes")) @@ ServiceFields,
              ("process" :> Process(Cls("bytes"), Cls("str")))
              @@ ("validate" :> Validate(Cls("int"))))

Candidates ==
    FieldCandidates
    \cup {StringProcessor, MixedProcessor, ValidService, MissingMethod,
          WrongMethodSignature, WrongReturnType, SubclassTypeMethod,
          ValidAsyncService, WrongAsyncSignature, ValidComplexService,
          InvalidComplexService, BothProtocolsImpl,
          CandidateOf("ParamType"), CandidateOf("ExtendedParamType")}

\* The protocols a query may name: every declared protocol, and BaseProtocol
\* subscripted with a concrete type.
QueryRefs ==
    {Ref(n, <<>>) : n \in ProtocolNames} \cup {Ref("BaseProtocol", <<Cls("str")>>)}

\* The protocols that occur in tuples.
TupleRefs ==
    {Ref(n, <<>>) : n \in {"Request", "ServiceProtocol", "AsyncServiceProtocol",
                           "ExtendedProtocol", "ValidatorProtocol"}}

Tuples == UNION {[1..n -> TupleRefs] : n \in 1..MaxTuple}

\* conforms(candidate, protocol)
Conforms(cand, ref) ==
    /\ op \in {"init", "idle"}
    /\ hcall' = [cand |-> cand, refs |-> <<ref>>, res |-> conforms(cand, ref)]
    /\ op' = "conforms"
    /\ UNCHANGED <<type_var_mapping, calls, tcall, mcall, contexts, threads>>

\* conforms_any(candidate, protocols)
ConformsAny(cand, refs) ==
    /\ op \in {"init", "idle"}
    /\ hcall' = [cand |-> cand, refs |-> refs, res |-> conforms_any(cand, refs)]
    /\ op' = "any"
    /\ UNCHANGED <<type_var_mapping, calls, tcall, mcall, contexts, threads>>

\* The query has returned: its binding contexts are gone.
Return ==
    /\ op \in {"conforms", "any"}
    /\ op' = "idle"
    /\ hcall' = NoHCall
    /\ UNCHANGED <<type_var_mapping, calls, tcall, mcall, contexts, threads>>

HookNext ==
    \/ \E cand \in Candidates, ref \in QueryRefs : Conforms(cand, ref)
    \/ \E cand \in Candidates, refs \in Tuples : ConformsAny(cand, refs)
    \/ Return

HookSpec == Init /\ [][HookNext]_vars

(***************************************************************************)
(* The convenience entry points called from several threads.  A thread's   *)
(* call is run one comparison at a time: work holds the comparisons still  *)
(* to make, in the order the code makes them (all() over a generator and   *)
(* the parameter loop are lazy and sequential, a nested call completes     *)
(* before the next sibling starts).  Any thread may take the next step.    *)
(***************************************************************************)
\* One pending comparison: a pair of types, the signatures of the two
\* methods ("enter"), parameter i of the two methods, or their returns.
Item(k, actual, expected, i) ==
    [k |-> k, actual |-> actual, expected |-> expected, i |-> i]

\* ContextCell with one dict shared by every call.
ContextCellShared(p) == 1

\* The dict a thread's call works on: the `{}` its own call evaluated.
ContextCell(p) == p

\* What one comparison does: fail the call, or leave pending comparisons.
Go(items, m, c) == [fail |-> FALSE, push |-> items, map |-> m, caught |-> c]

Fail(m, c) == [fail |-> TRUE, push |-> <<>>, map |-> m, caught |-> c]

\* A rule that completes in one comparison.
FromOutcome(r) == IF r.res THEN Go(<<>>, r.map, r.caught) ELSE Fail(r.map, r.caught)

\* The pairs all(...) visits, left to right.
ArgItems(actual, expected) ==
    [i \in 1..Len(get_args(expected)) |->
        Item("type", get_args(actual)[i], get_args(expected)[i], 0)]

\* One level of TypeChecker.is_compatible_with_unification.
TypeStep(actual, expected, m) ==
    IF expected.kind = "typevar" THEN FromOutcome(TypeVarRule(actual, expected, m))
    ELSE IF get_origin(actual) # "None" \/ get_origin(expected) # "None"
         THEN IF get_origin(actual) # get_origin(expected) THEN Fail(m, FALSE)
              ELSE IF Len(get_args(actual)) # Len(get_args(expected)) THEN Fail(m, FALSE)
              ELSE Go(ArgItems(actual, expected), m, FALSE)
    ELSE IF isclass(actual) /\ isclass(expected)
         THEN FromOutcome(ClassRule(actual, expected, m))
    ELSE FromOutcome(EqualityRule(actual, expected, m))

\* The parameters in order, then the return.
MemberItems(protocol_method) ==
    [i \in 1..Len(ProtocolParams(protocol_method)) |-> Item("param", None, None, i)]
        \o <<Item("return", None, None, 0)>>

\* MethodChecker.are_compatible_with_unification up to the parameter loop.
EnterStep(actual_method, protocol_method, m) ==
    IF actual_method.sig # "ok" \/ protocol_method.sig # "ok" THEN Fail(m, TRUE)
    ELSE IF AsyncMismatch(actual_method, protocol_method) THEN Fail(m, FALSE)
    ELSE IF CountMismatch(actual_method, protocol_method) THEN Fail(m, FALSE)
    ELSE Go(MemberItems(protocol_method), m, FALSE)

\* A pair of declared types, of a parameter or of the return: a protocol
\* type that is not None asks for a candidate type that is not None.
DeclaredStep(actual_type, protocol_type, m) ==
    IF protocol_type # None
    THEN IF actual_type = None THEN Fail(m, FALSE)
         ELSE Go(<<Item("type", actual_type, protocol_type, 0)>>, m, FALSE)
    ELSE Go(<<>>, m, FALSE)

\* One round of the parameter loop.
ParamStep(actual_method, protocol_method, i, m) ==
    IF actual_method.params[i] # ProtocolParams(protocol_method)[i] THEN Fail(m, FALSE)
    ELSE DeclaredStep(Get(actual_method.ann, actual_method.params[i]),
                      Get(protocol_method.ann, ProtocolParams(protocol_method)[i]), m)

\* The return check.
ReturnStep(actual_method, protocol_method, m) ==
    DeclaredStep(Get(actual_method.ann, "return"), Get(protocol_method.ann, "return"), m)

\* The comparison item of the call job, made on the context m.
StepOf(job, item, m) ==
    CASE item.k = "type" -> TypeStep(item.actual, item.expected, m)
      [] item.k = "enter" -> EnterStep(job.actual, job.expected, m)
      [] item.k = "param" -> ParamStep(job.actual, job.expected, item.i, m)
      [] item.k = "return" -> ReturnStep(job.actual, job.expected, m)

\* Calls the threads make.
IntToInt == Method(<<"self", "x">>, Ann1("x", Cls("int"), Cls("int")), FALSE)

StrToInt == Method(<<"self", "x">>, Ann1("x", Cls("str"), Cls("int")), FALSE)

PairMethod(tx, ty) == Method(<<"self", "x", "y">>, Ann2(tx, ty, Cls("int")), FALSE)

ThreadTypeCalls ==
    {<<Cls("int"), TVar("T")>>, <<Cls("str"), TVar("T")>>,
     <<Gen("dict", <<Cls("str"), Cls("int")>>), Gen("dict", <<TVar("T"), TVar("T")>>)>>,
     <<Gen("dict", <<Cls("str"), Cls("str")>>), Gen("dict", <<TVar("T"), TVar("T")>>)>>,
     <<Gen("list", <<Cls("int")>>), Gen("list", <<TVar("T")>>)>>,
     <<Cls("bool"), Cls("int")>>}

ThreadMethodCalls ==
    {<<IntToInt, GenericMethod>>, <<StrToInt, GenericMethod>>,
     <<PairMethod(Cls("int"), Cls("int")), PairMethod(TVar("T"), TVar("T"))>>,
     <<PairMethod(Cls("bool"), Cls("int")), PairMethod(TVar("T"), TVar("T"))>>,
     <<Uninspectable("ValueError"), GenericMethod>>,
     <<IntToInt, SubstitutedMethod(GenericMethod, "T" :> TVar("U"))>>}

\* The entry point allocates its `{}` and enters the engine.
Allocate(p, job, first) ==
    /\ threads[p].pc = "idle"
    /\ contexts' = [contexts EXCEPT ![ContextCell(p)] = EmptyMap]
    /\ threads' = [threads EXCEPT ![p] = [pc |-> "run", job |-> job, work |-> <<first>>,
                                          res |-> FALSE, caught |-> FALSE]]
    /\ UNCHANGED <<type_var_mapping, calls, op, tcall, mcall, hcall>>

\* TypeChecker.is_compatible(actual, expected) entered by thread p
IsCompatible(p, actual, expected) ==
    Allocate(p, Job("type", actual, expected), Item("type", actual, expected, 0))

\* MethodChecker.are_compatible(actual, expected) entered by thread p
AreCompatible(p, actual_method, protocol_method) ==
    Allocate(p, Job("method", actual_method, protocol_method),
             Item("enter", None, None, 0))

\* The thread after the comparison s with work w left: False ends the call
\* at once, True ends it when nothing is left.
After(t, s, w) ==
    IF s.fail
    THEN [t EXCEPT !.pc = "done", !.work = <<>>, !.res = FALSE,
                   !.caught = @ \/ s.caught]
    ELSE [t EXCEPT !.pc = IF w = <<>> THEN "done" ELSE "run", !.work = w,
                   !.res = (w = <<>>), !.caught = @ \/ s.caught]

\* The comparison s made by thread p takes effect.
Advance(p, s) ==
    /\ contexts' = [contexts EXCEPT ![ContextCell(p)] = s.map]
    /\ threads' = [threads EXCEPT ![p] = After(@, s, s.push \o Tail(@.work))]

\* Thread p makes the next comparison of its call.
Step(p) ==
    /\ threads[p].pc = "run"
    /\ Advance(p, StepOf(threads[p].job, Head(threads[p].work),
                         contexts[ContextCell(p)]))
    /\ UNCHANGED <<type_var_mapping, calls, op, tcall, mcall, hcall>>

\* The entry point returns to its caller: the dict is garbage.
Discard(p) ==
    /\ threads[p].pc = "done"
    /\ contexts' = [contexts EXCEPT ![ContextCell(p)] = EmptyMap]
    /\ threads' = [threads EXCEPT ![p] = IdleThread]
    /\ UNCHANGED <<type_var_mapping, calls, op, tcall, mcall, hcall>>

ThreadNext ==
    \E p \in Threads :
        \/ \E c \in ThreadTypeCalls : IsCompatible(p, c[1], c[2])
        \/ \E c \in ThreadMethodCalls : AreCompatible(p, c[1], c[2])
        \/ Step(p)
        \/ Discard(p)

ThreadSpec == Init /\ [][ThreadNext]_vars

(***************************************************************************)
(* Both engines called, in any order, on the one context a caller holds.   *)
(***************************************************************************)
SharedActualTypes ==
    {Cls("int"), Cls("bool"), Cls("str"),
     Gen("list", <<Cls("int")>>), Gen("dict", <<Cls("str"), Cls("int")>>),
     Gen("tuple", <<Cls("int"), Cls("str"), Cls("str")>>)}

SharedExpectedTypes ==
    {TVar("T"), TVar("U"), Cls("int"),
     Gen("list", <<TVar("T")>>), Gen("dict", <<TVar("T"), TVar("T")>>),
     Gen("tuple", <<TVar("T"), TVar("U"), TVar("T")>>)}

SharedActualMethods ==
    {IntToInt, StrToInt, PairMethod(Cls("int"), Cls("int")),
     PairMethod(Cls("int"), Cls("str")), Uninspectable("ValueError")}

SharedProtocolMethods ==
    {GenericMethod, PairMethod(TVar("T"), TVar("T")), PairMethod(TVar("T"), TVar("U")),
     SubstitutedMethod(GenericMethod, "T" :> TVar("U")),
     Method(<<"self", "x">>, Ann1("x", Gen("list", <<TVar("T")>>), Cls("int")), FALSE)}

SharedNext ==
    \/ NewContext
    \/ \E actual \in SharedActualTypes, expected \in SharedExpectedTypes :
          TypeCheck(actual, expected)
    \/ \E actual_method \in SharedActualMethods, protocol_method \in SharedProtocolMethods :
          MethodCheck(actual_method, protocol_method)

SharedSpec == Init /\ [][SharedNext]_vars

(***************************************************************************)
(* Properties.                                                             *)
(***************************************************************************)
\* The expected type is a TypeVar, or a generic alias whose arguments are all
\* TypeVars set against an actual alias of the same origin and length.
VarShaped(actual, expected) ==
    \/ expected.kind = "typevar"
    \/ /\ expected.kind = "generic"
       /\ actual.kind = "generic"
       /\ actual.name = expected.name
       /\ Len(actual.args) = Len(expected.args)
       /\ \A i \in 1..Len(expected.args) : expected.args[i].kind = "typevar"

\* The TypeVar occurrences of such an expected type, each with the actual
\* type it is checked against, in checking order.
Occurrences(actual, expected) ==
    IF expected.kind = "typevar" THEN <<[v |-> expected.name, a |-> actual]>>
    ELSE [i \in 1..Len(expected.args) |->
             [v |-> expected.args[i].name, a |-> actual.args[i]]]

\* Every occurrence meets the identical type: the one bound before the call,
\* or else the one its first occurrence met.
Identical(occ, pre) ==
    \A i \in 1..Len(occ) :
        /\ occ[i].v \in DOMAIN pre => pre[occ[i].v] = occ[i].a
        /\ \A j \in 1..Len(occ) : occ[j].v = occ[i].v => occ[j].a = occ[i].a

\* C1: within one binding context the first check against a TypeVar T, at
\* top level or inside generic arguments, binds T to the actual type and
\* succeeds; every later check against T succeeds iff the actual type is
\* exactly the bound type (a subclass of it is rejected).  So the query whose
\* member process binds the TypeVar to str and whose member validate supplies
\* int is False, although process alone passes.
C1_TypeVarExactBinding ==
    /\ (op = "type" /\ VarShaped(tcall.actual, tcall.expected)) =>
          LET occ == Occurrences(tcall.actual, tcall.expected)
          IN  /\ tcall.res = Identical(occ, tcall.pre)
              /\ tcall.res => \A i \in 1..Len(occ) :
                                 /\ occ[i].v \in DOMAIN tcall.post
                                 /\ tcall.post[occ[i].v] = occ[i].a
              /\ (tcall.expected.kind = "typevar"
                    /\ tcall.expected.name \notin DOMAIN tcall.pre) =>
                    /\ tcall.res
                    /\ tcall.post = (tcall.expected.name :> tcall.actual) @@ tcall.pre
    /\ conforms(StringProcessor, Ref("ExtendedProtocol", <<>>))
    /\ ~conforms(MixedProcessor, Ref("ExtendedProtocol", <<>>))
    /\ are_compatible(MixedProcessor.methods["process"],
                      EffectiveMethods(Ref("ExtendedProtocol", <<>>))[1].method).res

\* C1 witness: T was bound to int by an earlier check of this context, and a
\* later check against T with bool, a subclass of int, is rejected.
C1_Witness ==
    /\ op = "type"
    /\ tcall.expected = TVar("T")
    /\ "T" \in DOMAIN tcall.pre
    /\ tcall.pre["T"] = Cls("int")
    /\ tcall.actual = Cls("bool")
    /\ ~tcall.res

\* C2: a protocol method that declares a return type, None included, is
\* satisfied only by a candidate that declares a return type compatible with
\* it; a protocol "-> None" accepts only a candidate "-> None".
C2_ReturnTypeRequired ==
    (op = "method" /\ "return" \in DOMAIN mcall.protocol.ann /\ mcall.res) =>
        /\ "return" \in DOMAIN mcall.actual.ann
        /\ is_compatible_with_unification(mcall.actual.ann["return"],
                                          mcall.protocol.ann["return"],
                                          mcall.post).res

\* C3: a TypeChecker call in which introspection failed returns False.
C3_FailureIsIncompatible ==
    (op = "type" /\ tcall.caught) => ~tcall.res

\* A sequence reversed.
Reverse(q) == [i \in 1..Len(q) |-> q[Len(q) + 1 - i]]

\* C4: conforms_any(C, (P1..Pn)) is True iff conforms(C, Pi) is True for some
\* i, each Pi tested on its own fresh context, whatever the order of the tuple.
C4_AnyIsDisjunction ==
    op = "any" =>
        /\ hcall.res = (\E i \in 1..Len(hcall.refs) : conforms(hcall.cand, hcall.refs[i]))
        /\ hcall.res = conforms_any(hcall.cand, Reverse(hcall.refs))

\* C4 witness: MixedProcessor fails ExtendedProtocol after binding U to str
\* and is accepted by the next protocol of the tuple, which needs U = int.
C4_Witness ==
    /\ op = "any"
    /\ hcall.cand = MixedProcessor
    /\ hcall.refs = <<Ref("ExtendedProtocol", <<>>), Ref("ValidatorProtocol", <<>>)>>
    /\ hcall.res

\* A protocol that requires fields and no methods.
FieldOnly(ref) == EffectiveMethods(ref) = <<>> /\ EffectiveFields(ref) # <<>>

\* actual equals expected, or both are ordinary classes and actual inherits
\* from expected.
EqualOrSubclass(actual, expected) ==
    \/ actual = expected
    \/ /\ actual.kind = "class"
       /\ expected.kind = "class"
       /\ Meta(expected.name) = "type"
       /\ expected.name \in Mro(actual.name)

\* C5: for a protocol that requires only fields (own or inherited from its
\* bases), conforms is False for a candidate that lacks a required field or
\* declares it with an incompatible type, and True for a candidate that
\* declares every required field with an equal type or a subclass.
C5_FieldOnlyConformance ==
    (op = "conforms" /\ FieldOnly(hcall.refs[1])) =>
        LET fs == EffectiveFields(hcall.refs[1])
        IN  hcall.res =
              (\A i \in 1..Len(fs) :
                  /\ fs[i].name \in DOMAIN hcall.cand.fields
                  /\ EqualOrSubclass(hcall.cand.fields[fs[i].name], fs[i].type))

\* C5 witness: a candidate declaring id: bool, data: bytes, name: str
\* conforms to Custom, whose id and data come from its base Request.
C5_Witness ==
    /\ op = "conforms"
    /\ hcall.refs = <<Ref("Custom", <<>>)>>
    /\ DOMAIN hcall.cand.fields = {"id", "data", "name"}
    /\ hcall.cand.fields["id"] = Cls("bool")
    /\ hcall.res

\* C6: a candidate and a protocol method of which exactly one is a coroutine
\* function are incompatible, whatever their parameters and return types.
C6_AsyncConcordance ==
    (op = "method" /\ mcall.actual.coroutine # mcall.protocol.coroutine) => ~mcall.res

\* C6 witness: a synchronous candidate with the very parameters and
\* annotations of an asynchronous protocol method is rejected.
C6_Witness ==
    /\ op = "method"
    /\ mcall.protocol.coroutine
    /\ ~mcall.actual.coroutine
    /\ mcall.actual.params = mcall.protocol.params
    /\ mcall.actual.ann = mcall.protocol.ann
    /\ ~mcall.res

\* Two parameter lists differ in length or in the name at some position.
NamesDiffer(a, b) == Len(a) # Len(b) \/ \E i \in 1..Len(a) : a[i] # b[i]

\* The original method of a substituted one, carrying the substituted types.
Unwrapped(pm) == [pm EXCEPT !.has_original = FALSE, !.params = pm.orig_params]

\* C7: a candidate whose parameter count, or parameter name at any position,
\* differs from the protocol's is rejected; the protocol's names and order
\* are those of its original signature when the method is a substituted one.
C7_NamesAndOrder ==
    op = "method" =>
        /\ NamesDiffer(mcall.actual.params,
                       IF mcall.protocol.has_original THEN mcall.protocol.orig_params
                       ELSE mcall.protocol.params) => ~mcall.res
        /\ mcall.protocol.has_original =>
              mcall.res = are_compatible_with_unification(
                              mcall.actual, Unwrapped(mcall.protocol), mcall.pre).res

\* C7 witness: the candidate (self, y: int, x: int) against the protocol
\* (self, x: T, y: T): the right types in the wrong order, rejected.
C7_Witness ==
    /\ op = "method"
    /\ mcall.actual.params = <<"self", "y", "x">>
    /\ mcall.protocol.params = <<"self", "x", "y">>
    /\ mcall.actual.ann["x"] = mcall.actual.ann["y"]
    /\ ~mcall.res

\* C8: for every parameter the protocol method declares a type for, the
\* candidate declares a type that is compatible with it, or the result is
\* False.
C8_ParamTypesRequired ==
    (op = "method" /\ mcall.res) =>
        LET pp == IF mcall.protocol.has_original THEN mcall.protocol.orig_params
                  ELSE mcall.protocol.params
        IN  \A i \in 1..Len(pp) :
                pp[i] \in DOMAIN mcall.protocol.ann =>
                    /\ pp[i] \in DOMAIN mcall.actual.ann
                    /\ is_compatible_with_unification(mcall.actual.ann[pp[i]],
                                                      mcall.protocol.ann[pp[i]],
                                                      mcall.post).res

\* Both types are plain classes and the expected one is no TypeVar.
PlainClasses(actual, expected) == actual.kind = "class" /\ expected.kind = "class"

\* C9 as claimed: on two plain classes the result is True iff actual equals
\* expected or inherits from it, and the context is unchanged.
C9_NominalSubclass ==
    (op = "type" /\ PlainClasses(tcall.actual, tcall.expected)) =>
        /\ tcall.res = (tcall.expected.name \in Mro(tcall.actual.name))
        /\ tcall.post = tcall.pre

\* actual's own annotations declare every field of the protocol class
\* expected with an equal type or a subclass.
DeclaresFieldsOf(actual, expected) ==
    LET fs == EffectiveFields(Ref(expected.name, <<>>))
        own == CandidateOf(actual.name).fields
    IN  \A i \in 1..Len(fs) :
            /\ fs[i].name \in DOMAIN own
            /\ EqualOrSubclass(own[fs[i].name], fs[i].type)

\* C9 amended: on two plain classes the context is unchanged and the result
\* is that of the subclass test of expected: inheritance when expected is an
\* ordinary class, structural conformance of actual's own annotations when
\* expected is a protocol class (a protocol derived from expected is not
\* accepted for that alone), and, when the test itself fails with a
\* TypeError, whether actual equals expected.
C9_SubclassTest ==
    (op = "type" /\ PlainClasses(tcall.actual, tcall.expected)) =>
        /\ tcall.post = tcall.pre
        /\ Meta(tcall.expected.name) = "type" =>
              tcall.res = (tcall.expected.name \in Mro(tcall.actual.name))
        /\ Meta(tcall.expected.name) = "TypedProtocol" =>
              tcall.res = DeclaresFieldsOf(tcall.actual, tcall.expected)
        /\ Meta(tcall.expected.name) = "Protocol" =>
              tcall.res = (tcall.actual = tcall.expected)

\* C9 witness: bool is accepted where int is expected, on a context that
\* holds a binding, which the call leaves as it was.
C9_Witness ==
    /\ op = "type"
    /\ tcall.actual = Cls("bool")
    /\ tcall.expected = Cls("int")
    /\ tcall.pre # EmptyMap
    /\ tcall.res
    /\ tcall.post = tcall.pre

\* actual is a protocol class derived from the protocol class expected.
DerivedProtocol(actual, expected) ==
    /\ PlainClasses(actual, expected)
    /\ Meta(expected.name) = "TypedProtocol"
    /\ actual # expected
    /\ expected.name \in Mro(actual.name)

\* C10: a candidate method whose parameter is declared with a protocol type
\* derived from the protocol type the required method declares for it has the
\* wrong parameter type: compute(param: ExtendedParamType) -> int does not
\* conform to compute(param: ParamType) -> int.
C10_DerivedProtocolParam ==
    /\ op = "method" =>
          \A k \in DOMAIN mcall.protocol.ann \cap DOMAIN mcall.actual.ann :
              (k # "return" /\ DerivedProtocol(mcall.actual.ann[k], mcall.protocol.ann[k]))
                  => ~mcall.res
    /\ ~conforms(InvalidComplexService, Ref("ComplexServiceProtocol", <<>>))
    /\ conforms(ValidComplexService, Ref("ComplexServiceProtocol", <<>>))

\* C10 witness: the candidate (self, x: ExtendedParamType) -> int checked
\* against the protocol (self, x: ParamType) -> int is rejected.
C10_Witness ==
    /\ op = "method"
    /\ mcall.actual = Method(<<"self", "x">>,
                             Ann1("x", Cls("ExtendedParamType"), Cls("int")), FALSE)
    /\ mcall.protocol = Method(<<"self", "x">>,
                               Ann1("x", Cls("ParamType"), Cls("int")), FALSE)
    /\ ~mcall.res


\* The call of job run alone, start to end, on a fresh empty context.
RunAlone(job) ==
    IF job.kind = "type" THEN is_compatible(job.actual, job.expected)
    ELSE are_compatible(job.actual, job.expected)

\* Every binding of m is one that alone holds too.
BindingsOf(m, alone) == \A v \in DOMAIN m : v \in DOMAIN alone /\ alone[v] = m[v]

\* C11: checks started with their own binding context and interleaved in any
\* order do not interfere: a thread whose call has ended has the result and
\* the context of the same call run alone, and at no point does its context
\* hold a binding that its own call run alone does not make.
C11_NoInterference ==
    \A p \in Threads :
        /\ threads[p].pc \in {"run", "done"} =>
              BindingsOf(contexts[ContextCell(p)], RunAlone(threads[p].job).map)
        /\ threads[p].pc = "done" =>
              /\ threads[p].res = RunAlone(threads[p].job).res
              /\ contexts[ContextCell(p)] = RunAlone(threads[p].job).map

\* Two calls in flight at once that have bound the same TypeVar differently;
\* one has ended with True while the other still has comparisons to make.
C11_Witness ==
    \E p, q \in Threads :
        /\ p # q
        /\ threads[p].pc = "done" /\ threads[p].res
        /\ threads[q].pc = "run" /\ threads[q].work # <<>>
        /\ "T" \in DOMAIN contexts[ContextCell(p)]
        /\ "T" \in DOMAIN contexts[ContextCell(q)]
        /\ contexts[ContextCell(p)]["T"] # contexts[ContextCell(q)]["T"]

\* The TypeVars that occur in the type t.
RECURSIVE TypeVarsOf(_)
TypeVarsOf(t) ==
    IF t.kind = "typevar" THEN {t.name}
    ELSE UNION {TypeVarsOf(t.args[i]) : i \in DOMAIN t.args}

\* The TypeVars in the declared types of pm's parameters and return.
MethodTypeVars(pm) ==
    UNION {TypeVarsOf(pm.ann[k]) :
             k \in {n \in DOMAIN pm.ann :
                      n = "return" \/ \E i \in DOMAIN ProtocolParams(pm) :
                                         ProtocolParams(pm)[i] = n}}

\* post keeps every binding of pre and adds only bindings for TypeVars of vs.
Grows(pre, post, vs) ==
    /\ BindingsOf(pre, post)
    /\ (DOMAIN post) \ (DOMAIN pre) \subseteq vs

\* The first j argument pairs of a generic comparison, checked on pre.
ArgsPrefix(actual, expected, j, pre) ==
    AllArgs(SubSeq(get_args(actual), 1, j), SubSeq(get_args(expected), 1, j), 1, pre)

\* The first j parameters of a method comparison, checked on pre.
ParamsPrefix(am, pm, j, pre) ==
    CheckParams(am, pm, SubSeq(ProtocolParams(pm), 1, j), 1, pre)

\* The generic branch reaches the pairwise comparison.
ReachesArgs(actual, expected) ==
    /\ expected.kind = "generic"
    /\ get_origin(actual) = get_origin(expected)
    /\ Len(get_args(actual)) = Len(get_args(expected))

\* The method comparison reaches the parameter loop.
ReachesParams(am, pm) ==
    /\ am.sig = "ok" /\ pm.sig = "ok"
    /\ ~AsyncMismatch(am, pm)
    /\ ~CountMismatch(am, pm)

\* C12: the binding context only grows.  Whatever a call of either engine
\* returns, every TypeVar bound before the call is bound to the same type
\* after it, the bindings added are for TypeVars of the expected type(s)
\* that were unbound, and the bindings made by the comparisons that passed
\* before a failure are still there when the call returns False.
C12_ContextOnlyGrows ==
    /\ op = "type" =>
          /\ type_var_mapping = tcall.post
          /\ Grows(tcall.pre, tcall.post, TypeVarsOf(tcall.expected))
          /\ ReachesArgs(tcall.actual, tcall.expected) =>
                \A j \in 1..Len(get_args(tcall.expected)) :
                    ArgsPrefix(tcall.actual, tcall.expected, j, tcall.pre).res =>
                        BindingsOf(ArgsPrefix(tcall.actual, tcall.expected, j, tcall.pre).map,
                                   tcall.post)
    /\ op = "method" =>
          /\ type_var_mapping = mcall.post
          /\ Grows(mcall.pre, mcall.post, MethodTypeVars(mcall.protocol))
          /\ ReachesParams(mcall.actual, mcall.protocol) =>
                \A j \in 1..Len(ProtocolParams(mcall.protocol)) :
                    ParamsPrefix(mcall.actual, mcall.protocol, j, mcall.pre).res =>
                        BindingsOf(ParamsPrefix(mcall.actual, mcall.protocol, j, mcall.pre).map,
                                   mcall.post)

\* A call on a context that already held a binding returned False after its
\* first two comparisons had passed and added a binding: the context it left
\* holds the old binding and the new one.
C12_Witness ==
    /\ op = "type"
    /\ ~tcall.res
    /\ tcall.pre # EmptyMap
    /\ ReachesArgs(tcall.actual, tcall.expected)
    /\ Len(get_args(tcall.expected)) > 2
    /\ ArgsPrefix(tcall.actual, tcall.expected, 2, tcall.pre).res
    /\ (DOMAIN tcall.post) \ (DOMAIN tcall.pre) # {}


=============================================================================
